---------------------------- MODULE Spec2Model ----------------------------
(***************************************************************************)
(* Model of the end-to-end test harness of the Memfault Linux SDK:         *)
(*   - MemfaultServiceTester (test_scripts/memfault_service_tester.py):    *)
(*     poll_until_not_raising, the poll_<entity>_until_count helpers that  *)
(*     poll the remote HTTP service, and the single-call methods;          *)
(*   - QEMU (test_scripts/qemu.py): the console session of the virtual     *)
(*     device, exec_cmd and systemd_wait_for_service_state, and the        *)
(*     release of the VM process by __del__.                               *)
(* The two halves do not share state.  A behaviour exercises one of them:  *)
(* SpecPoll is one call of a polling operation or of a single-call method  *)
(* against an arbitrary remote service, or one run of the autouse fixture  *)
(* _set_test_id_device_attribute (test_scripts/conftest.py); SpecPair is   *)
(* poll_reports_until_count with its answers recorded, to be replayed      *)
(* through poll_elf_coredumps_until_count.  SpecQemu is one console        *)
(* session against an echoing shell, up to the release of the VM process;  *)
(* SpecShell is the part of it that follows a login: one command with its  *)
(* output, or expect_journald_message.  SpecPollLive, SpecQemuLive and     *)
(* SpecShellLive add weak fairness of the steps.  Spec is the union of     *)
(* both halves.                                                            *)
(*                                                                         *)
(* Time in the polling half is counted in ticks of the default poll        *)
(* interval (0.5 s); time in the console half in ticks of the service      *)
(* poller's sleep (0.1 s).                                                 *)
(***************************************************************************)
EXTENDS Integers, Sequences, FiniteSets, TLC

VARIABLES
    \* ---- polling half (MemfaultServiceTester) ----
    mode,       \* the operation called: "off", "generic", "reboot", "coredumps", "reports",
                \* or the name of a single-call method
    count,      \* the count argument of poll_<entity>_until_count
    interval,   \* poll_interval_seconds, in ticks
    now,        \* time.time(), in ticks since the call started
    deadline,   \* the local `timeout`: start + timeout_seconds
    pc,         \* "check" | "sleep" | "blocked" | "returned" | "raised" | "off";
                \* of the fixture: "setup" | "body" | "create" | "patch" | "error"
    calls,      \* invocations of check_callback / listing requests so far
    sleeps,     \* time.sleep calls so far
    last,       \* outcome of the most recent check_callback invocation, and when it was handled
    firstFail,  \* the first failure check_callback produced
    rv,         \* the value the call returned
    exc,        \* the failure the call raised
    resp,       \* the most recent response of the listing endpoint
    num_reports,\* poll_reports_until_count's num_reports
    reports,    \* poll_reports_until_count's reports
    script,     \* how far the responses follow the scripted fake service
    expectStatus, \* the expectStatus argument of a single-call method
    ignoreErrors, \* its ignoreErrors argument
    fixture,    \* the autouse fixture _set_test_id_device_attribute: whether the test
                \* uses both fixtures it needs, and the requests it has issued
    replay,     \* the answers poll_reports_until_count received, each with the time
                \* it took, kept when the call is compared with the other poller
    \* ---- console half (QEMU) ----
    todo,       \* the harness's remaining steps: its position in the scenario
    buf,        \* the device's output the harness has not consumed yet
    inq,        \* the lines sent to the device that it has not read yet
    sent,       \* how many lines the harness has sent
    dev,        \* the device: "off" | "booting" | "login" | "shell" | "grep" | "hung"
    svc,        \* the state of the service on the device (index into states, 7: none of them)
    svcSince,   \* since when the service has been in that state
    changes,    \* how often the service changed its state
    qnow,       \* time.time(), in ticks of 0.1 s
    timeout_seconds, \* the argument of systemd_wait_for_service_state, in ticks
    timeout,    \* systemd_wait_for_service_state's local `timeout`
    expected_state_idx,
    last_state_idx,
    polls,      \* passes of the loop of systemd_wait_for_service_state
    lastCmd,    \* the line number of the most recent `systemctl is-active`
    matched,    \* what the most recent expect(states) matched
    phase,      \* "off" | "constructing" | "waiting" | "scenario", or how the call
                \* ended: "returned" | "TimeoutError" | "pexpect.TIMEOUT"
    errLast,    \* the `Last state:` of the TimeoutError's message
    written,    \* how many bytes the device has written to the console
    hist,       \* what the harness did on the console so far, in order
    proc,       \* the spawned VM process: "off" | "running" | "closed" | "reaped"
    obj         \* the QEMU object: "off" | "owned" | "unreferenced" | "referenced"

pollVars == <<mode, count, interval, now, deadline, pc, calls, sleeps, last,
              firstFail, rv, exc, resp, num_reports, reports, script, expectStatus,
              ignoreErrors, fixture, replay>>

qemuVars == <<todo, buf, inq, sent, dev, svc, svcSince, changes, qnow, timeout_seconds,
              timeout, expected_state_idx, last_state_idx, polls, lastCmd, matched, phase,
              errLast, written, hist, proc, obj>>

vars == <<pollVars, qemuVars>>

-----------------------------------------------------------------------------
(* Bounds of the model *)

MaxCalls == 4          \* check invocations / listing requests per call
MaxTimeout == 4        \* largest timeout_seconds, in ticks
MaxInterval == 1       \* largest poll_interval_seconds of the generic call, in ticks
MaxCheckTime == 1      \* longest duration of one check_callback, in ticks
MaxCount == 2          \* largest count argument
MaxEvents == 2         \* longest list the service returns
MaxValue == 2          \* values a generic check_callback returns
MaxChanges == 1        \* changes of the service's state during a session
MaxPollTime == 1       \* longest duration of one exec_cmd and expect, in ticks of 0.1 s
MaxWait == 2           \* largest timeout_seconds tried besides one second, in ticks of 0.1 s

(* Program constants *)

DefaultPollInterval == 1   \* poll_interval_seconds = 0.5: one tick
ReportsSleep == 1          \* time.sleep(0.5) in poll_reports_until_count
PollSleepTicks == 1        \* time.sleep(0.1) in systemd_wait_for_service_state
SpawnTimeout == 1200       \* pexpect.spawn(..., timeout=120)
JournalTimeout == 30       \* wait_for_memfaultd_start(timeout=3)

-----------------------------------------------------------------------------
(* Remote entities and the responses of the listing endpoints *)

\* The `time` field of a reboot event: an ISO-8601 string, absent, or
\* present with a wall-clock hour and a UTC offset ("naive": no offset).
Offsets == {"naive", "+00:00", "+01:00"}
Hours == {0, 1}

NoTime == [present |-> FALSE, h |-> 0, tz |-> "naive"]

TimeVals == {NoTime} \cup
            {[present |-> TRUE, h |-> h, tz |-> z] : h \in Hours, z \in Offsets}

\* The JSON lists a listing endpoint can put in "data": the entity at
\* position i is identified by id i.
DataLists == UNION {{[i \in 1..n |-> [id |-> i, time |-> f[i]]] : f \in [1..n -> TimeVals]}
                    : n \in 0..MaxEvents}

\* Entities other than reboot events are only counted.
PlainLists == {[i \in 1..n |-> [id |-> i, time |-> NoTime]] : n \in 0..MaxEvents}

Statuses == {200, 201, 204, 304, 404}

NoData == <<>>

\* requests.Response.ok: the status is below 400
ResponseOk(r) == r.status < 400

\* A 200 or 201 response carries the envelope {"data": [...]}; an error
\* body, a 200 whose body is not the envelope, and a response without a
\* body (204, 304) have no "data".
Responses(lists) == {[status |-> s, hasData |-> TRUE, data |-> d] : s \in {200, 201}, d \in lists}
                    \cup {[status |-> s, hasData |-> FALSE, data |-> NoData]
                          : s \in Statuses \ {201}}

NoResponse == [status |-> 0, hasData |-> FALSE, data |-> NoData]

-----------------------------------------------------------------------------
(* datetime.datetime.fromisoformat and list.sort *)

OffsetHours(tz) == IF tz = "+01:00" THEN 1 ELSE 0

\* fromisoformat: an aware datetime is the instant h - offset, a naive one
\* the wall-clock hour.
fromisoformat(t) == [aware |-> t.tz # "naive", at |-> t.h - OffsetHours(t.tz)]

SortKeyByText(e) == [aware |-> TRUE, at |-> e.time.h]
\* key=lambda x: datetime.datetime.fromisoformat(cast(str, x["time"]))
SortKey(e) == fromisoformat(e.time)

RECURSIVE InsertSorted(_, _)
\* e goes behind every element whose key is not greater: the sort is stable
InsertSorted(e, s) ==
    IF s = <<>> THEN <<e>>
    ELSE IF SortKey(e).at < SortKey(Head(s)).at THEN <<e>> \o s
    ELSE <<Head(s)>> \o InsertSorted(e, Tail(s))

RECURSIVE SortFrom(_, _)
SortFrom(s, acc) ==
    IF s = <<>> THEN acc ELSE SortFrom(Tail(s), InsertSorted(Head(s), acc))

\* events.sort(key=...): the keys of all elements are computed first (a
\* missing "time" is a KeyError), then compared (a naive datetime against an
\* aware one is a TypeError).
ListSort(events) ==
    IF \E i \in DOMAIN events : ~events[i].time.present
    THEN [ok |-> FALSE, kind |-> "KeyError", list |-> <<>>]
    ELSE IF \E i, j \in DOMAIN events : SortKey(events[i]).aware # SortKey(events[j]).aware
    THEN [ok |-> FALSE, kind |-> "TypeError", list |-> <<>>]
    ELSE [ok |-> TRUE, kind |-> "", list |-> SortFrom(events, <<>>)]

-----------------------------------------------------------------------------
(* The single-call listing methods *)

ANY == -1      \* unittest.mock.ANY: compares equal to every status

\* a comparison that lets every status pass
StatusNotAsserted(status, expect_status) == TRUE
\* assert resp.status_code == expect_status
StatusMatches(status, expect_status) == expect_status = ANY \/ status = expect_status

Returned(list) == [ok |-> TRUE, kind |-> "", none |-> FALSE, list |-> list]
ReturnedNone == [ok |-> TRUE, kind |-> "", none |-> TRUE, list |-> <<>>]
Raised(kind) == [ok |-> FALSE, kind |-> kind, none |-> FALSE, list |-> <<>>]

\* a 204 and a 304 response have no body
HasBody(r) == r.status \notin {204, 304}

\* resp.json()["data"]: without a body json() fails, without the envelope
\* the subscript does
JsonData(r) ==
    IF ~HasBody(r) THEN Raised("JSONDecodeError")
    ELSE IF r.hasData THEN Returned(r.data)
    ELSE Raised("KeyError")

\* assert ..., resp.json(): the message is evaluated when the assertion
\* fails, and without a body it fails itself
AssertionFailure(r) ==
    IF HasBody(r) THEN Raised("AssertionError") ELSE Raised("JSONDecodeError")

list_reboot_events(r, expect_status) ==
    IF ~StatusMatches(r.status, expect_status) THEN Raised("AssertionError")
    ELSE IF ResponseOk(r) THEN JsonData(r)
    ELSE ReturnedNone

list_elf_coredumps(r, expect_status, ignore_errors) ==
    IF ~(StatusMatches(r.status, expect_status) \/ ignore_errors) THEN Raised("AssertionError")
    ELSE IF r.status = 200 THEN JsonData(r)
    ELSE Returned(<<>>)

\* list_reports that asserts the status although errors are to be ignored
list_reports_ErrorsNotIgnored(r, expect_status, ignore_errors) ==
    IF ~StatusMatches(r.status, expect_status) THEN Raised("AssertionError")
    ELSE IF r.status = 200 THEN JsonData(r)
    ELSE Returned(<<>>)
list_reports(r, expect_status, ignore_errors) ==
    IF ~(StatusMatches(r.status, expect_status) \/ ignore_errors) THEN Raised("AssertionError")
    ELSE IF r.status = 200 THEN JsonData(r)
    ELSE Returned(<<>>)

list_attributes(r, expect_status) ==
    IF ~StatusMatches(r.status, expect_status) THEN Raised("AssertionError")
    ELSE IF ResponseOk(r) THEN JsonData(r)
    ELSE ReturnedNone

\* the method has no return statement
patch_device_attributes(r, expect_status) ==
    IF ~StatusMatches(r.status, expect_status) THEN AssertionFailure(r)
    ELSE ReturnedNone

create_custom_metric(r, expect_status) ==
    IF ~StatusMatches(r.status, expect_status) THEN AssertionFailure(r)
    ELSE IF ResponseOk(r) THEN JsonData(r)
    ELSE ReturnedNone

log_files_get_list(r) ==
    IF ~StatusMatches(r.status, 200) THEN Raised("AssertionError")
    ELSE JsonData(r)

\* return rv.text: the body as it is, the envelope or not
log_file_download(r) ==
    IF ~StatusMatches(r.status, 200) THEN Raised("AssertionError")
    ELSE Returned(r.data)

\* a failure whose text shows a status code
RaisedShowing(kind, status) == Raised(kind) @@ ("shows" :> status)

\* the status code the text of a failure shows, 0 when it shows none
Shows(got) == IF "shows" \in DOMAIN got THEN got.shows ELSE 0

\* get_device whose assertion has no message: the failure shows no status
get_device_WithoutMessage(r) ==
    IF ~StatusMatches(r.status, 200) THEN Raised("AssertionError")
    ELSE JsonData(r)
\* assert rv.status_code == 200, f"Get device failed with status:
\* {rv.status_code}"
get_device(r) ==
    IF ~StatusMatches(r.status, 200) THEN RaisedShowing("AssertionError", r.status)
    ELSE JsonData(r)

\* The negative-path test around get_device: try: get_device(...); assert
\* False / except Exception as e: assert "404" in str(e).  The failure of
\* `assert False` is caught by the same except, and its text has no 404.
test_fails_with_data_collection_disabled(returned, shows) ==
    IF returned THEN "failed"
    ELSE IF shows = 404 THEN "passed"
    ELSE "failed"

\* the methods that issue one request and take expect_status / ignore_errors
ListingMethods == {"list_reboot_events", "list_reports", "list_elf_coredumps",
                   "list_attributes"}
SingleMethods == ListingMethods \cup
                 {"patch_device_attributes", "create_custom_metric", "log_files_get_list",
                  "log_file_download", "get_device"}

\* the method m called once, answered with r
CallMethod(m, r, es, ie) ==
    CASE m = "list_reboot_events" -> list_reboot_events(r, es)
      [] m = "list_reports" -> list_reports(r, es, ie)
      [] m = "list_elf_coredumps" -> list_elf_coredumps(r, es, ie)
      [] m = "list_attributes" -> list_attributes(r, es)
      [] m = "patch_device_attributes" -> patch_device_attributes(r, es)
      [] m = "create_custom_metric" -> create_custom_metric(r, es)
      [] m = "log_files_get_list" -> log_files_get_list(r)
      [] m = "log_file_download" -> log_file_download(r)
      [] m = "get_device" -> get_device(r)

\* the expect_status arguments tried: the method's default, another status,
\* and for the methods that compare with a caller's value the wildcard
ExpectStatuses(m) ==
    IF m \in {"log_files_get_list", "log_file_download", "get_device"} THEN {200}
    ELSE IF m = "patch_device_attributes" THEN {204, 404, ANY}
    ELSE {200, 404, ANY}

IgnoreChoices(m) == IF m \in {"list_reports", "list_elf_coredumps"} THEN BOOLEAN ELSE {FALSE}

-----------------------------------------------------------------------------
(* The _check closures of the poll_<entity>_until_count operations *)

RebootCheckNoCount(r, n) ==
    LET events == list_reboot_events(r, ANY) IN
    IF ~events.ok THEN events
    ELSE IF events.none THEN Raised("AssertionError")
    ELSE LET sorted == ListSort(events.list) IN
         IF ~sorted.ok THEN Raised(sorted.kind) ELSE Returned(sorted.list)
\* poll_reboot_events_until_count._check
RebootCheck(r, n) ==
    LET events == list_reboot_events(r, ANY) IN
    IF ~events.ok THEN events
    ELSE IF events.none THEN Raised("AssertionError")
    ELSE IF ~(Len(events.list) >= n) THEN Raised("AssertionError")
    ELSE LET sorted == ListSort(events.list) IN
         IF ~sorted.ok THEN Raised(sorted.kind) ELSE Returned(sorted.list)

CoredumpsCheckNoCount(r, n) == list_elf_coredumps(r, ANY, FALSE)
\* poll_elf_coredumps_until_count._check
CoredumpsCheck(r, n) ==
    LET elf_coredumps == list_elf_coredumps(r, ANY, FALSE) IN
    IF ~elf_coredumps.ok THEN elf_coredumps
    ELSE IF ~(Len(elf_coredumps.list) >= n) THEN Raised("AssertionError")
    ELSE elf_coredumps

-----------------------------------------------------------------------------
(* poll_until_not_raising *)

NoFail == [call |-> 0, kind |-> ""]
NoVal(m) == IF m = "generic" THEN 0 ELSE <<>>
NoOutcome(m) == [ok |-> FALSE, call |-> 0, kind |-> "", val |-> NoVal(m), at |-> 0]

\* The outcomes one invocation of check_callback can have, each with the
\* response that produced it.
CheckOutcomes(m, n) ==
    IF m = "generic"
    THEN {[r |-> NoResponse, ok |-> TRUE, kind |-> "", val |-> v] : v \in 1..MaxValue}
         \cup {[r |-> NoResponse, ok |-> FALSE, kind |-> k, val |-> 0]
               : k \in {"AssertionError", "RuntimeError"}}
    ELSE IF m = "reboot"
    THEN {[r |-> r, ok |-> RebootCheck(r, n).ok, kind |-> RebootCheck(r, n).kind,
           val |-> RebootCheck(r, n).list] : r \in Responses(DataLists)}
    ELSE {[r |-> r, ok |-> CoredumpsCheck(r, n).ok, kind |-> CoredumpsCheck(r, n).kind,
           val |-> CoredumpsCheck(r, n).list] : r \in Responses(PlainLists)}

GiveUpOnFirstFailure(ok, t, dl) == IF ok THEN "returned" ELSE "raised"
GiveUpAtDeadline(ok, t, dl) == IF ok THEN "returned" ELSE IF t >= dl THEN "raised" ELSE "sleep"
TimeoutBeatsSuccess(ok, t, dl) == IF t > dl THEN "raised" ELSE IF ok THEN "returned" ELSE "sleep"
\* try: rv = check_callback() / except Exception: if time.time() > timeout:
\* raise / else: return rv -- where the loop goes after one invocation
AfterCheck(ok, t, dl) == IF ok THEN "returned" ELSE IF t > dl THEN "raised" ELSE "sleep"

ReraiseFirst(first, current) == first
\* the bare `raise`: the exception being handled
Reraise(first, current) == current

\* The fake remote service of the end-to-end scenario: {"data": []} for the
\* first three requests, then one event (bare: {"id": 1}; timed: with a
\* time field).
ScriptNext(s, n, r) ==
    IF r.status # 200 THEN "off"
    ELSE IF n <= 3 THEN (IF s = "empty" /\ r.data = <<>> THEN "empty" ELSE "off")
    ELSE IF Len(r.data) # 1 THEN "off"
    ELSE IF s \in {"empty", "bare"} /\ ~r.data[1].time.present THEN "bare"
    ELSE IF s \in {"empty", "timed"} /\ r.data[1].time.present THEN "timed"
    ELSE "off"

\* The most recent response as the model remembers it: the list of a
\* response whose check failed is never read again and is not kept.
Unread(r) == [r EXCEPT !.data = NoData]

\* One pass of the loop up to the sleep: invoke check_callback, return its
\* value, or handle its failure.
PollCheck ==
    /\ mode \in {"generic", "reboot", "coredumps"}
    /\ pc = "check"
    /\ calls < MaxCalls
    /\ \E d \in 0..MaxCheckTime, o \in CheckOutcomes(mode, count) :
         LET fail == [call |-> calls + 1, kind |-> o.kind]
             first == IF ~o.ok /\ firstFail = NoFail THEN fail ELSE firstFail
             next == AfterCheck(o.ok, now + d, deadline)
         IN /\ now' = now + d
            /\ calls' = calls + 1
            /\ resp' = IF o.ok THEN o.r ELSE Unread(o.r)
            /\ last' = [ok |-> o.ok, call |-> calls + 1, kind |-> o.kind, val |-> o.val,
                         at |-> now + d]
            /\ firstFail' = first
            /\ pc' = next
            /\ rv' = IF next = "returned" THEN o.val ELSE rv
            /\ exc' = IF next = "raised" THEN Reraise(first, fail) ELSE exc
            /\ script' = IF mode = "generic" THEN "off" ELSE ScriptNext(script, calls + 1, o.r)
    /\ UNCHANGED <<mode, count, interval, deadline, sleeps, num_reports, reports,
                   expectStatus, ignoreErrors, fixture>>
    /\ UNCHANGED replay
    /\ UNCHANGED qemuVars

\* time.sleep(poll_interval_seconds)
PollSleep ==
    /\ mode \in {"generic", "reboot", "coredumps"}
    /\ pc = "sleep"
    /\ now' = now + interval
    /\ sleeps' = sleeps + 1
    /\ pc' = "check"
    /\ UNCHANGED <<mode, count, interval, deadline, calls, last, firstFail, rv, exc,
                   resp, num_reports, reports, script, expectStatus, ignoreErrors, fixture>>
    /\ UNCHANGED replay
    /\ UNCHANGED qemuVars

-----------------------------------------------------------------------------
(* poll_reports_until_count *)

\* if num_reports >= count or time.time() > timeout: assert ...; break
ReportsExit ==
    /\ mode = "reports"
    /\ pc = "check"
    /\ num_reports >= count \/ now > deadline
    /\ IF num_reports >= count
       THEN pc' = "returned" /\ rv' = reports /\ exc' = exc
       ELSE pc' = "raised" /\ rv' = rv
            /\ exc' = [call |-> calls, kind |-> "AssertionError", got |-> num_reports,
                       expected |-> count]
    /\ UNCHANGED <<mode, count, interval, now, deadline, calls, sleeps, last, firstFail,
                   resp, num_reports, reports, script, expectStatus, ignoreErrors, fixture>>
    /\ UNCHANGED replay
    /\ UNCHANGED qemuVars

\* reports = self.list_reports(params, ignore_errors=True);
\* num_reports = len(reports); time.sleep(0.5)
ReportsIter ==
    /\ mode = "reports"
    /\ pc = "check"
    /\ ~(num_reports >= count \/ now > deadline)
    /\ calls < MaxCalls
    /\ \E d \in 0..MaxCheckTime, r \in Responses(PlainLists) :
         LET got == list_reports(r, 200, TRUE) IN
         /\ calls' = calls + 1
         /\ resp' = r
         /\ IF got.ok
            THEN /\ reports' = got.list
                 /\ num_reports' = Len(got.list)
                 /\ now' = now + d + ReportsSleep
                 /\ sleeps' = sleeps + 1
                 /\ UNCHANGED <<pc, exc>>
            ELSE /\ pc' = "raised"
                 /\ exc' = [call |-> calls + 1, kind |-> got.kind, got |-> num_reports,
                            expected |-> count]
                 /\ now' = now + d
                 /\ UNCHANGED <<reports, num_reports, sleeps>>
         /\ script' = ScriptNext(script, calls + 1, r)
         /\ replay' = IF replay.on
                      THEN [replay EXCEPT !.served = Append(@, [r |-> r, d |-> d])]
                      ELSE replay
    /\ UNCHANGED <<mode, count, interval, deadline, last, firstFail, rv, expectStatus,
                   ignoreErrors, fixture>>
    /\ UNCHANGED qemuVars

-----------------------------------------------------------------------------
(* The requests of the session *)

\* A single-call method is called: one request, the status assertion, the
\* value.  Nothing is caught and nothing is retried.
SingleCall ==
    /\ mode \in SingleMethods
    /\ pc = "check"
    /\ \E r \in Responses(PlainLists) :
         LET got == CallMethod(mode, r, expectStatus, ignoreErrors) IN
         /\ calls' = calls + 1
         /\ resp' = r
         /\ pc' = IF got.ok THEN "returned" ELSE "raised"
         /\ rv' = IF got.ok THEN got ELSE rv
         /\ exc' = IF got.ok THEN exc
                   ELSE [call |-> calls + 1, kind |-> got.kind, shows |-> Shows(got)]
    /\ UNCHANGED <<mode, count, interval, now, deadline, sleeps, last, firstFail,
                   num_reports, reports, script, expectStatus, ignoreErrors, fixture>>
    /\ UNCHANGED replay
    /\ UNCHANGED qemuVars

\* self.session.get / patch / post is called without a timeout: when the
\* remote service accepts the request and never answers, the call does not
\* return.
RequestBlocks ==
    /\ mode \in SingleMethods \cup {"reboot", "coredumps", "reports"}
    /\ pc = "check"
    /\ mode = "reports" => ~(num_reports >= count \/ now > deadline)
    /\ calls < MaxCalls
    /\ calls' = calls + 1
    /\ pc' = "blocked"
    /\ UNCHANGED <<mode, count, interval, now, deadline, sleeps, last, firstFail, rv, exc,
                   resp, num_reports, reports, script, expectStatus, ignoreErrors, fixture>>
    /\ UNCHANGED replay
    /\ UNCHANGED qemuVars

-----------------------------------------------------------------------------
(* The autouse fixture _set_test_id_device_attribute *)

FixtureMode == "_set_test_id_device_attribute"

NoFixture == [uses |-> FALSE, requests |-> <<>>]

\* The fixture up to its yield.  When the test does not use both
\* memfault_service_tester and qemu_device_id it yields at once; otherwise
\* it asks for the two fixture values first, which fails the setup when a
\* value cannot be made.
FixtureSetup ==
    /\ mode = FixtureMode
    /\ pc = "setup"
    /\ pc' \in IF fixture.uses THEN {"body", "error"} ELSE {"body"}
    /\ UNCHANGED <<mode, count, interval, now, deadline, calls, sleeps, last, firstFail, rv,
                   exc, resp, num_reports, reports, script, expectStatus, ignoreErrors,
                   fixture>>
    /\ UNCHANGED replay
    /\ UNCHANGED qemuVars

\* The test body runs; the fixture resumes behind its yield, or returns
\* when the test does not use both fixtures.
FixtureYield ==
    /\ mode = FixtureMode
    /\ pc = "body"
    /\ pc' = IF fixture.uses THEN "create" ELSE "returned"
    /\ UNCHANGED <<mode, count, interval, now, deadline, calls, sleeps, last, firstFail, rv,
                   exc, resp, num_reports, reports, script, expectStatus, ignoreErrors,
                   fixture>>
    /\ UNCHANGED replay
    /\ UNCHANGED qemuVars

\* try: memfault_service_tester.create_custom_metric(key=key,
\* data_type="STRING") / except AssertionError: pass
FixtureCreate ==
    /\ mode = FixtureMode
    /\ pc = "create"
    /\ \E r \in Responses(PlainLists) :
         LET got == create_custom_metric(r, 200) IN
         /\ calls' = calls + 1
         /\ resp' = r
         /\ fixture' = [fixture EXCEPT !.requests =
                            Append(@, [method |-> "create_custom_metric", status |-> r.status])]
         /\ IF got.ok \/ got.kind = "AssertionError"
            THEN pc' = "patch" /\ exc' = exc
            ELSE pc' = "raised"
                 /\ exc' = [call |-> calls + 1, kind |-> got.kind, shows |-> Shows(got)]
    /\ UNCHANGED <<mode, count, interval, now, deadline, sleeps, last, firstFail, rv,
                   num_reports, reports, script, expectStatus, ignoreErrors>>
    /\ UNCHANGED replay
    /\ UNCHANGED qemuVars

\* try: memfault_service_tester.patch_device_attributes(device_serial=...,
\* patch={key: ...}) / except AssertionError: pass
FixturePatch ==
    /\ mode = FixtureMode
    /\ pc = "patch"
    /\ \E r \in Responses(PlainLists) :
         LET got == patch_device_attributes(r, 204) IN
         /\ calls' = calls + 1
         /\ resp' = r
         /\ fixture' = [fixture EXCEPT !.requests =
                            Append(@, [method |-> "patch_device_attributes",
                                       status |-> r.status])]
         /\ IF got.ok \/ got.kind = "AssertionError"
            THEN pc' = "returned" /\ exc' = exc
            ELSE pc' = "raised"
                 /\ exc' = [call |-> calls + 1, kind |-> got.kind, shows |-> Shows(got)]
    /\ UNCHANGED <<mode, count, interval, now, deadline, sleeps, last, firstFail, rv,
                   num_reports, reports, script, expectStatus, ignoreErrors>>
    /\ UNCHANGED replay
    /\ UNCHANGED qemuVars

-----------------------------------------------------------------------------
(* One call of a polling operation or of a single-call method *)

\* timeout_secs: int, in ticks of half a second
EntityTimeouts == {2 * s : s \in (0 - 1)..(MaxTimeout \div 2)}

\* the console half when the behaviour is a polling call
QemuOff ==
    /\ todo = <<>> /\ buf = <<>> /\ inq = <<>> /\ sent = 0 /\ dev = "off"
    /\ svc = 0 /\ svcSince = 0 /\ changes = 0 /\ qnow = 0 /\ timeout_seconds = 0
    /\ timeout = 0 /\ expected_state_idx = 0 /\ last_state_idx = 0 - 1 /\ polls = 0
    /\ lastCmd = 0 /\ matched = [src |-> "", line |-> 0, st |-> 0 - 1]
    /\ phase = "off" /\ errLast = ""
    /\ written = 0 /\ hist = <<>> /\ proc = "off" /\ obj = "off"

\* nothing is recorded
NoReplay == [on |-> FALSE, served |-> <<>>]

PollStart ==
    /\ QemuOff
    /\ mode \in {"generic", "reboot", "coredumps", "reports", FixtureMode} \cup SingleMethods
    /\ count \in IF mode \in {"generic", FixtureMode} \cup SingleMethods THEN {0}
                 ELSE 0..MaxCount
    /\ interval \in IF mode = "generic" THEN 0..MaxInterval ELSE {DefaultPollInterval}
    /\ now = 0
    /\ deadline \in IF mode = "generic" THEN (0 - 1)..MaxTimeout
                    ELSE IF mode \in SingleMethods \cup {FixtureMode} THEN {0}
                    ELSE EntityTimeouts
    /\ pc = IF mode = FixtureMode THEN "setup" ELSE "check"
    /\ calls = 0
    /\ sleeps = 0
    /\ last = NoOutcome(mode)
    /\ firstFail = NoFail
    /\ rv = NoVal(mode)
    /\ exc = IF mode = "reports"
             THEN [call |-> 0, kind |-> "", got |-> 0, expected |-> 0] ELSE NoFail
    /\ resp = NoResponse
    /\ num_reports = 0
    /\ reports = <<>>
    /\ script = IF mode \in {"generic", FixtureMode} \cup SingleMethods THEN "off" ELSE "empty"
    /\ expectStatus \in IF mode \in SingleMethods THEN ExpectStatuses(mode)
                         ELSE IF mode \in {"reports", FixtureMode} THEN {200}
                         ELSE {ANY}
    /\ ignoreErrors \in IF mode \in SingleMethods THEN IgnoreChoices(mode)
                         ELSE {mode = "reports"}
    /\ fixture \in IF mode = FixtureMode
                    THEN {[uses |-> u, requests |-> <<>>] : u \in BOOLEAN}
                    ELSE {NoFixture}

InitPoll ==
    /\ PollStart
    /\ replay = NoReplay

NextPoll == RequestBlocks \/ SingleCall \/ PollSleep \/ ReportsExit \/ ReportsIter
            \/ FixtureSetup \/ FixtureYield \/ FixtureCreate \/ FixturePatch
            \/ PollCheck

SpecPoll == InitPoll /\ [][NextPoll]_vars

\* every step that can be taken is taken eventually
SpecPollLive == SpecPoll /\ WF_vars(NextPoll)

-----------------------------------------------------------------------------
(* poll_reports_until_count beside poll_elf_coredumps_until_count *)

\* poll_elf_coredumps_until_count before its first request
TwinStart == [pc |-> "check", calls |-> 0, now |-> 0, rv |-> <<>>, kind |-> ""]

\* One pass of poll_until_not_raising with the _check of
\* poll_elf_coredumps_until_count, the request answered with a.r after a.d
\* ticks: the call returns, raises, or sleeps poll_interval_seconds.  A call
\* that has ended makes no request.
TwinPass(t, a, n, dl) ==
    IF t.pc # "check" THEN t
    ELSE LET got == CoredumpsCheck(a.r, n)
             next == AfterCheck(got.ok, t.now + a.d, dl)
         IN [pc |-> IF next = "sleep" THEN "check" ELSE next,
             calls |-> t.calls + 1,
             now |-> t.now + a.d + (IF next = "sleep" THEN DefaultPollInterval ELSE 0),
             rv |-> IF next = "returned" THEN got.list ELSE t.rv,
             kind |-> IF next = "raised" THEN got.kind ELSE t.kind]

RECURSIVE TwinRun(_, _, _, _)
\* poll_elf_coredumps_until_count(n, timeout_secs) answered with the
\* answers of `served`, in order
TwinRun(t, served, n, dl) ==
    IF served = <<>> THEN t
    ELSE TwinRun(TwinPass(t, Head(served), n, dl), Tail(served), n, dl)

\* poll_reports_until_count is called and its answers are recorded
InitPair ==
    /\ PollStart
    /\ mode = "reports"
    /\ replay = [on |-> TRUE, served |-> <<>>]

NextPair == RequestBlocks \/ ReportsExit \/ ReportsIter

SpecPair == InitPair /\ [][NextPair]_vars

-----------------------------------------------------------------------------
(* Properties of poll_until_not_raising *)

PollMode == mode \in {"generic", "reboot", "coredumps"}
EntityMode == mode \in {"reboot", "coredumps", "reports"}

\* C1: the first invocation of check_callback that does not raise ends the
\* call: the call has returned exactly that invocation's value, no further
\* invocation and no sleep followed it (the failures before it were each
\* followed by one sleep), whether or not the deadline had passed.
C1_FirstSuccessEndsCall ==
    PollMode /\ last.ok =>
        /\ pc = "returned"
        /\ rv = last.val
        /\ last.call = calls
        /\ sleeps = calls - 1

\* a success that came after the deadline, after earlier failures
C1_Witness ==
    /\ mode = "generic" /\ pc = "returned" /\ last.ok
    /\ calls >= 2 /\ last.at > deadline

\* C2: when the call ends by raising, the failure raised is the failure of
\* the most recent invocation of check_callback, unchanged: not the first
\* failure, not an earlier one, not a new timeout error.
C2_RaisesLastFailure ==
    PollMode /\ pc = "raised" =>
        /\ ~last.ok
        /\ last.call = calls
        /\ exc = [call |-> calls, kind |-> last.kind]
        /\ exc.kind # "TimeoutError"

\* raised after several failures of different kinds
C2_Witness ==
    /\ PollMode /\ pc = "raised" /\ calls >= 2
    /\ firstFail.kind # exc.kind /\ firstFail.call = 1

\* C3: a failure handled at a time not after the deadline is not propagated:
\* exactly one sleep of poll_interval_seconds follows it and the loop is back
\* at the next invocation; a failure is propagated only when it is handled
\* strictly after the deadline.
C3_FailureBeforeDeadlineRetries ==
    PollMode =>
        /\ pc = "raised" => ~last.ok /\ last.at > deadline
        /\ ~last.ok /\ calls > 0 /\ last.at <= deadline => pc \in {"sleep", "check", "blocked"}
        /\ pc = "sleep" => ~last.ok /\ sleeps = calls - 1 /\ now = last.at
        /\ pc = "check" /\ calls > 0 =>
               ~last.ok /\ sleeps = calls /\ now = last.at + interval

\* a failure handled exactly at the deadline, slept on, the next invocation due
C3_Witness ==
    /\ PollMode /\ pc = "check" /\ calls >= 1
    /\ last.at = deadline /\ sleeps = calls

\* C28: poll_until_not_raising invokes check_callback at least once
\* whatever timeout_seconds is (zero and negative included), and a failure
\* it raises was produced by its most recent invocation, one that finished
\* after the deadline: it never gives up on a failure observed at or before
\* the deadline, so that an attempt made after the deadline precedes every
\* raise.
C28_AttemptAfterDeadline ==
    PollMode =>
        /\ pc \in {"returned", "raised", "sleep"} => calls >= 1
        /\ pc = "raised" =>
              /\ exc.call = calls /\ last.call = calls /\ ~last.ok
              /\ exc.kind = last.kind
              /\ last.at > deadline
        /\ deadline < 0 /\ pc \in {"returned", "raised"} => calls = 1

\* a negative timeout_seconds: one invocation is made, and its failure raised
C28_Witness ==
    /\ mode = "generic" /\ deadline < 0
    /\ pc = "raised" /\ calls = 1 /\ exc.call = 1

-----------------------------------------------------------------------------
(* Properties of the poll_<entity>_until_count operations *)

\* the instant an event's time field denotes
Instant(e) == fromisoformat(e.time).at

IsPermutation(s, t) ==
    /\ Len(s) = Len(t)
    /\ {s[i] : i \in DOMAIN s} = {t[i] : i \in DOMAIN t}

\* C4 as stated: against the fake service whose fourth response is
\* {"data": [{"id": 1}]}, with the timeout not yet exceeded at the fourth
\* request, poll_reboot_events_until_count(1) returns the one-element list
\* after exactly 4 requests and 3 sleeps.
C4_Original ==
    mode = "reboot" /\ count = 1 /\ script = "bare" /\ last.at <= deadline =>
        /\ pc = "returned"
        /\ calls = 4 /\ sleeps = 3
        /\ Len(rv) = 1

\* C4 amended: when the event of the fourth response carries a time field
\* ({"data": [{"id": 1, "time": <ISO-8601>}]}), the call returns that
\* one-element list after exactly 4 listing requests and 3 sleeps, and it
\* does not return while the responses are still {"data": []}.
C4_ReturnsAtFourthPoll ==
    mode = "reboot" /\ count = 1 =>
        /\ script = "empty" /\ calls >= 1 => pc # "returned"
        /\ script = "timed" =>
              /\ pc = "returned"
              /\ calls = 4 /\ sleeps = 3
              /\ rv = resp.data /\ Len(rv) = 1

C4_Witness ==
    mode = "reboot" /\ count = 1 /\ script = "timed" /\ pc = "returned" /\ calls = 4

\* C5: a list returned by poll_reboot_events_until_count is a permutation of
\* the events of the last response, in ascending order of the time field,
\* so its last element has the maximum timestamp.
C5_ReturnedEventsSortedByTime ==
    mode = "reboot" /\ pc = "returned" =>
        /\ resp.hasData /\ IsPermutation(rv, resp.data)
        /\ \A i, j \in DOMAIN rv : i < j => Instant(rv[i]) <= Instant(rv[j])
        /\ \A i \in DOMAIN rv : Instant(rv[i]) <= Instant(rv[Len(rv)])

\* two events returned in another order than the service sent them
C5_Witness ==
    /\ mode = "reboot" /\ pc = "returned" /\ Len(rv) = 2 /\ rv # resp.data
    /\ Instant(rv[1]) < Instant(rv[2])

\* what a call that returned must have returned
ReturnedLastData ==
    /\ calls >= 1
    /\ resp.hasData /\ IsPermutation(rv, resp.data)
    /\ Len(rv) >= count

\* C6 as stated: for every count, a poll_<entity>_until_count call that
\* returns has returned the data of the most recent listing request, with at
\* least count entities.
C6_Original == EntityMode /\ pc = "returned" => ReturnedLastData

\* C6 amended: the same for every count >= 1.
C6_ReturnsLastDataOfAtLeastCount ==
    EntityMode /\ pc = "returned" /\ count >= 1 => ReturnedLastData

C6_Witness ==
    /\ mode \in {"coredumps", "reports"} /\ pc = "returned" /\ count = 2
    /\ Len(rv) = 2 /\ calls >= 2

-----------------------------------------------------------------------------
(* The console: texts, patterns and pexpect's search *)

\* SystemdState, and the `states` list of systemd_wait_for_service_state
states == <<"inactive", "active", "deactivating", "activating", "reloading", "failed",
            "maintenance">>

\* The texts that cross the console, byte by byte (CR and LF name the two
\* bytes of a line end).
Bytes(t) ==
    CASE t = "" -> <<>>
      [] t = "root" -> <<"r", "o", "o", "t">>
      [] t = "export PAGER=cat" -> <<"e", "x", "p", "o", "r", "t", " ", "P", "A", "G", "E", "R", "=", "c", "a", "t">>
      [] t = "export SYSTEMD_PAGER=cat" ->
            <<"e", "x", "p", "o", "r", "t", " ", "S", "Y", "S", "T", "E", "M", "D", "_", "P", "A", "G", "E", "R", "=", "c", "a", "t">>
      [] t = "systemctl is-active memfaultd.service" ->
            <<"s", "y", "s", "t", "e", "m", "c", "t", "l", " ", "i", "s", "-", "a", "c", "t", "i", "v", "e", " ">> \o
            <<"m", "e", "m", "f", "a", "u", "l", "t", "d", ".", "s", "e", "r", "v", "i", "c", "e">>
      [] t = "echo hi" -> <<"e", "c", "h", "o", " ", "h", "i">>
      [] t = "hi" -> <<"h", "i">>
      [] t = "(journalctl -f -u memfaultd -n 10 &) |grep -q \"Started memfaultd daemon\"" ->
            <<"(", "j", "o", "u", "r", "n", "a", "l", "c", "t", "l", " ", "-", "f", " ", "-", "u", " ", "m", "e">> \o
            <<"m", "f", "a", "u", "l", "t", "d", " ", "-", "n", " ", "1", "0", " ", "&", ")", " ", "|", "g", "r">> \o
            <<"e", "p", " ", "-", "q", " ", "\"", "S", "t", "a", "r", "t", "e", "d", " ", "m", "e", "m", "f", "a">> \o
            <<"u", "l", "t", "d", " ", "d", "a", "e", "m", "o", "n", "\"">>
      [] t = " login:" -> <<" ", "l", "o", "g", "i", "n", ":">>
      [] t = "#" -> <<"#">>
      [] t = "\n" -> <<"LF">>
      [] t = "\r\n" -> <<"CR", "LF">>
      [] t = "qemu login: " -> <<"q", "e", "m", "u", " ", "l", "o", "g", "i", "n", ":", " ">>
      [] t = "root@qemu:~# " -> <<"r", "o", "o", "t", "@", "q", "e", "m", "u", ":", "~", "#", " ">>
      [] t = "inactive" -> <<"i", "n", "a", "c", "t", "i", "v", "e">>
      [] t = "active" -> <<"a", "c", "t", "i", "v", "e">>
      [] t = "deactivating" -> <<"d", "e", "a", "c", "t", "i", "v", "a", "t", "i", "n", "g">>
      [] t = "activating" -> <<"a", "c", "t", "i", "v", "a", "t", "i", "n", "g">>
      [] t = "reloading" -> <<"r", "e", "l", "o", "a", "d", "i", "n", "g">>
      [] t = "failed" -> <<"f", "a", "i", "l", "e", "d">>
      [] t = "maintenance" -> <<"m", "a", "i", "n", "t", "e", "n", "a", "n", "c", "e">>
      [] t = "unknown" -> <<"u", "n", "k", "n", "o", "w", "n">>

\* The device's output is kept as segments: the text t, of which the first
\* `from` bytes are consumed already, with where it came from: the echo of
\* input line `line`, the output that line's command printed (st: the
\* service state it printed), the prompt after it, or the login banner.
\* `at` is how many bytes the device had written before the segment.
Emit(t, src, line, st) ==
    IF t = "" THEN <<>>
    ELSE <<[t |-> t, from |-> 0, src |-> src, line |-> line, st |-> st, at |-> 0]>>

RECURSIVE Size(_)
\* the number of bytes of a sequence of segments
Size(segs) == IF segs = <<>> THEN 0 ELSE Len(Bytes(Head(segs).t)) + Size(Tail(segs))

RECURSIVE Place(_, _)
\* the segments as the device writes them behind the n bytes written before
Place(segs, n) ==
    IF segs = <<>> THEN <<>>
    ELSE <<[Head(segs) EXCEPT !.at = n]>> \o Place(Tail(segs), n + Len(Bytes(Head(segs).t)))

SegLen(seg) == Len(Bytes(seg.t)) - seg.from

\* the unconsumed bytes of a segment, each with the segment it belongs to
SegBytes(seg) ==
    [i \in 1..SegLen(seg) |-> [c |-> Bytes(seg.t)[seg.from + i], src |-> seg.src,
                               line |-> seg.line, st |-> seg.st,
                               pos |-> seg.at + seg.from + i]]

RECURSIVE Flat(_)
\* the buffer byte by byte
Flat(b) == IF b = <<>> THEN <<>> ELSE SegBytes(Head(b)) \o Flat(Tail(b))

RECURSIVE Text(_)
\* the text of the buffer
Text(b) ==
    IF b = <<>> THEN <<>>
    ELSE SubSeq(Bytes(Head(b).t), Head(b).from + 1, Len(Bytes(Head(b).t))) \o Text(Tail(b))

\* a buffer that an expect call does not consume
DropNothing(b, n) == b

RECURSIVE Drop(_, _)
\* the buffer without its first n bytes
Drop(b, n) ==
    IF n = 0 \/ b = <<>> THEN b
    ELSE IF n >= SegLen(Head(b)) THEN Drop(Tail(b), n - SegLen(Head(b)))
    ELSE <<[Head(b) EXCEPT !.from = @ + n]>> \o Tail(b)

\* what the service reports: one of `states`, or a state that is none of them
StateName(i) == IF i < Len(states) THEN states[i + 1] ELSE "unknown"

\* a pattern, or the list of patterns, handed to pexpect's expect
Patterns(p) == IF p = "states" THEN [i \in 1..Len(states) |-> Bytes(states[i])]
               ELSE <<Bytes(p)>>

MatchAt(text, i, pat) ==
    /\ i + Len(pat) - 1 <= Len(text)
    /\ \A k \in 1..Len(pat) : text[i + k - 1] = pat[k]

Min(S) == CHOOSE x \in S : \A y \in S : x <= y

NotFound == [found |-> FALSE, idx |-> 0 - 1, start |-> 0, end |-> 0]

RECURSIVE FirstMatch(_, _, _)
\* the first position from i on at which one of the patterns matches, with
\* the first of the patterns that match there
FirstMatch(text, pats, i) ==
    IF i > Len(text) THEN NotFound
    ELSE IF \E q \in DOMAIN pats : MatchAt(text, i, pats[q])
    THEN LET p == Min({q \in DOMAIN pats : MatchAt(text, i, pats[q])})
         IN [found |-> TRUE, idx |-> p - 1, start |-> i, end |-> i + Len(pats[p]) - 1]
    ELSE FirstMatch(text, pats, i + 1)

\* pexpect's search of the buffer: the match that starts first wins, among
\* those the pattern listed first; idx is the index expect returns, and the
\* buffer is consumed up to `end`.
Search(text, pats) == FirstMatch(text, pats, 1)

-----------------------------------------------------------------------------
(* QEMU: the harness's steps *)

Step(op, arg) == [op |-> op, arg |-> arg]

IsActiveCmd == "systemctl is-active memfaultd.service"

\* exec_cmd without the empty line: what the call was before it
\* resynchronised on a fresh prompt
exec_cmd_NoEmptyLine(cmd) ==
    <<Step("exec_cmd", cmd), Step("expect", "#"), Step("sendline", cmd), Step("expect", "\n")>>
\* exec_cmd that never sends its command
exec_cmd_WithoutCommand(cmd) ==
    <<Step("exec_cmd", cmd), Step("sendline", ""), Step("expect", "#"), Step("expect", "\n")>>
\* QEMU.exec_cmd: its entry, then its four statements
exec_cmd(cmd) ==
    <<Step("exec_cmd", cmd),
      Step("sendline", ""), Step("expect", "#"), Step("sendline", cmd), Step("expect", "\n")>>

\* QEMU._set_env
set_env == exec_cmd("export PAGER=cat") \o exec_cmd("export SYSTEMD_PAGER=cat")

\* a login that sends the user name without waiting for the prompt
login_WithoutWaiting == <<Step("sendline", "root"), Step("expect", " login:")>> \o set_env

\* QEMU.login
login == <<Step("expect", " login:"), Step("sendline", "root")>> \o set_env

\* the command line of expect_journald_message("memfaultd", "Started
\* memfaultd daemon", last_lines=10): it ends when grep has found the message
JournalCmd == "(journalctl -f -u memfaultd -n 10 &) |grep -q \"Started memfaultd daemon\""

\* QEMU.expect_journald_message as QEMU.wait_for_memfaultd_start calls it:
\* the command, then expect("#", timeout=timeout)
expect_journald_message ==
    <<Step("begin", "journal")>> \o exec_cmd(JournalCmd) \o <<Step("expect_within", "#")>>

\* the end-to-end scenario on a constructed session: exec_cmd("echo hi"),
\* then expect("hi")
EchoHi == <<Step("begin", "echo")>> \o exec_cmd("echo hi") \o <<Step("expect", "hi")>>

\* the expect statements: with the spawn's timeout, or with a timeout of
\* their own
ExpectOps == {"expect", "expect_within"}

\* states[last_state_idx], as Python indexes a list: -1 is the last element
PyIndex(list, i) == IF i < 0 THEN list[Len(list) + i + 1] ELSE list[i + 1]

NoMatch == [src |-> "", line |-> 0, st |-> 0 - 1]

\* an entry of the history: the operation and its argument; for a sendline
\* the number of the line sent; for an expect where the bytes it matched
\* came from and the positions of the first and the last of them
Did(op, arg) == [op |-> op, arg |-> arg, line |-> 0, src |-> "", start |-> 0, end |-> 0]

\* exec_cmd is entered
ExecBegin ==
    /\ todo # <<>> /\ Head(todo).op = "exec_cmd"
    /\ hist' = Append(hist, Did("call", Head(todo).arg))
    /\ todo' = Tail(todo)
    /\ UNCHANGED <<buf, inq, sent, dev, svc, svcSince, changes, qnow, timeout_seconds,
                   timeout, expected_state_idx, last_state_idx, polls, lastCmd, matched,
                   phase, errLast, written, proc, obj>>
    /\ UNCHANGED pollVars

\* self.pid.sendline(text)
Sendline ==
    /\ todo # <<>> /\ Head(todo).op = "sendline"
    /\ inq' = Append(inq, [text |-> Head(todo).arg, id |-> sent + 1])
    /\ sent' = sent + 1
    /\ lastCmd' = IF Head(todo).arg = IsActiveCmd THEN sent + 1 ELSE lastCmd
    /\ hist' = Append(hist, [Did("sendline", Head(todo).arg) EXCEPT !.line = sent + 1])
    /\ todo' = Tail(todo)
    /\ UNCHANGED <<buf, dev, svc, svcSince, changes, qnow, timeout_seconds, timeout,
                   expected_state_idx, last_state_idx, polls, matched, phase, errLast,
                   written, proc, obj>>
    /\ UNCHANGED pollVars

\* self.pid.expect(pattern) finds a match: the buffer is consumed up to its
\* end.  last_state_idx = self.child().expect(states) keeps the index.
Expect ==
    /\ todo # <<>> /\ Head(todo).op \in ExpectOps
    /\ \E text \in {Text(buf)} : \E m \in {Search(text, Patterns(Head(todo).arg))} :
       /\ m.found
       /\ buf' = Drop(buf, m.end)
       /\ hist' = LET first == Flat(buf)[m.start] IN
                  Append(hist, [Did("expect", Head(todo).arg) EXCEPT
                                   !.src = first.src, !.line = first.line,
                                   !.start = first.pos, !.end = Flat(buf)[m.end].pos])
       /\ IF Head(todo).arg = "states"
          THEN /\ last_state_idx' = m.idx
               /\ matched' = LET at == Flat(buf)[m.start]
                              IN [src |-> at.src, line |-> at.line, st |-> at.st]
               /\ \E d \in 0..MaxPollTime : qnow' = qnow + d
          ELSE UNCHANGED <<last_state_idx, matched, qnow>>
    /\ todo' = Tail(todo)
    /\ UNCHANGED <<inq, sent, dev, svc, svcSince, changes, timeout_seconds, timeout,
                   expected_state_idx, polls, lastCmd, phase, errLast, written, proc, obj>>
    /\ UNCHANGED pollVars

\* self.pid.expect(pattern) finds no match and the device prints nothing
\* more: pexpect.TIMEOUT after the spawn's timeout, which nothing catches.
ExpectTimeout ==
    /\ todo # <<>> /\ Head(todo).op \in ExpectOps
    /\ dev = "hung" \/ (inq = <<>> /\ dev # "booting")
    /\ \E text \in {Text(buf)} : ~Search(text, Patterns(Head(todo).arg)).found
    /\ phase' = "pexpect.TIMEOUT"
    /\ todo' = <<>>
    /\ qnow' = qnow + (IF Head(todo).op = "expect_within" THEN JournalTimeout ELSE SpawnTimeout)
    /\ UNCHANGED <<buf, inq, sent, dev, svc, svcSince, changes, timeout_seconds, timeout,
                   expected_state_idx, last_state_idx, polls, lastCmd, matched, errLast,
                   written, hist, proc, obj>>
    /\ UNCHANGED pollVars

\* systemd_wait_for_service_state, entry: timeout = time.time() +
\* timeout_seconds; last_state_idx = -1
WaitBegin ==
    /\ todo # <<>> /\ Head(todo).op = "wait_begin"
    /\ timeout' = qnow + timeout_seconds
    /\ last_state_idx' = 0 - 1
    /\ phase' = "waiting"
    /\ todo' = <<Step("wait_test", "")>> \o Tail(todo)
    /\ UNCHANGED <<buf, inq, sent, dev, svc, svcSince, changes, qnow, timeout_seconds,
                   expected_state_idx, polls, lastCmd, matched, errLast, written, hist,
                   proc, obj>>
    /\ UNCHANGED pollVars

\* while time.time() < timeout
LoopCondition(t, dl) == t < dl

\* the loop test: another pass (exec_cmd, expect(states), compare), or the
\* TimeoutError after the loop
WaitTest ==
    /\ todo # <<>> /\ Head(todo).op = "wait_test"
    /\ IF LoopCondition(qnow, timeout)
       THEN /\ todo' = exec_cmd(IsActiveCmd)
                        \o <<Step("expect", "states"), Step("wait_compare", "")>>
                        \o Tail(todo)
            /\ polls' = polls + 1
            /\ UNCHANGED <<phase, errLast>>
       ELSE /\ phase' = "TimeoutError"
            /\ errLast' = PyIndex(states, last_state_idx)
            /\ todo' = <<>>
            /\ UNCHANGED polls
    /\ UNCHANGED <<buf, inq, sent, dev, svc, svcSince, changes, qnow, timeout_seconds,
                   timeout, expected_state_idx, last_state_idx, lastCmd, matched, written,
                   hist, proc, obj>>
    /\ UNCHANGED pollVars

\* if last_state_idx == expected_state_idx: return / time.sleep(0.1)
WaitCompare ==
    /\ todo # <<>> /\ Head(todo).op = "wait_compare"
    /\ IF last_state_idx = expected_state_idx
       THEN /\ phase' = "returned"
            /\ todo' = Tail(todo)
            /\ qnow' = qnow
       ELSE /\ qnow' = qnow + PollSleepTicks
            /\ todo' = <<Step("wait_test", "")>> \o Tail(todo)
            /\ phase' = phase
    /\ UNCHANGED <<buf, inq, sent, dev, svc, svcSince, changes, timeout_seconds, timeout,
                   expected_state_idx, last_state_idx, polls, lastCmd, matched, errLast,
                   written, hist, proc, obj>>
    /\ UNCHANGED pollVars

-----------------------------------------------------------------------------
(* The device behind the console: an echoing login and shell *)

Prompt(line) == Emit("root@qemu:~# ", "prompt", line, 0 - 1)

\* what a command prints
Output(cmd, line) ==
    IF cmd = IsActiveCmd
    THEN Emit(StateName(svc), "out", line, svc) \o Emit("\r\n", "out", line, svc)
    ELSE IF cmd = "echo hi"
    THEN Emit("hi", "out", line, 0 - 1) \o Emit("\r\n", "out", line, 0 - 1)
    ELSE <<>>

\* the device has booted and prints the login banner
DeviceBoot ==
    /\ proc = "running"
    /\ dev = "booting"
    /\ LET out == Emit("qemu login: ", "banner", 0, 0 - 1)
       IN buf' = buf \o Place(out, written) /\ written' = written + Size(out)
    /\ dev' = "login"
    /\ UNCHANGED <<todo, inq, sent, svc, svcSince, changes, qnow, timeout_seconds, timeout,
                   expected_state_idx, last_state_idx, polls, lastCmd, matched, phase,
                   errLast, hist, proc, obj>>
    /\ UNCHANGED pollVars

\* the device reads one line: it echoes it; the login starts the shell for
\* root, the shell runs the line as a command, prints what the command
\* prints and then its prompt.  The journal command ends at once when the
\* message is among the last lines of the journal already; otherwise the
\* shell waits for it ("grep") and prints no prompt yet.
DeviceLine ==
    /\ proc = "running"
    /\ dev \in {"login", "shell"}
    /\ inq # <<>>
    /\ \E found \in IF dev = "shell" /\ Head(inq).text = JournalCmd THEN BOOLEAN ELSE {TRUE} :
       LET l == Head(inq)
           echo == Emit(l.text, "echo", l.id, 0 - 1) \o Emit("\r\n", "echo", l.id, 0 - 1)
           out == IF dev = "login"
                  THEN IF l.text = "root"
                       THEN echo \o Prompt(l.id)
                       ELSE echo \o Emit("qemu login: ", "banner", l.id, 0 - 1)
                  ELSE IF found THEN echo \o Output(l.text, l.id) \o Prompt(l.id)
                  ELSE echo
       IN /\ buf' = buf \o Place(out, written)
          /\ written' = written + Size(out)
          /\ dev' = IF dev = "login" /\ l.text = "root" THEN "shell"
                    ELSE IF ~found THEN "grep"
                    ELSE dev
    /\ inq' = Tail(inq)
    /\ UNCHANGED <<todo, sent, svc, svcSince, changes, qnow, timeout_seconds, timeout,
                   expected_state_idx, last_state_idx, polls, lastCmd, matched, phase,
                   errLast, hist, proc, obj>>
    /\ UNCHANGED pollVars

\* the message appears in the journal: grep ends, and the shell prints the
\* prompt after the journal command (the last line the device has read)
JournalMessage ==
    /\ proc = "running"
    /\ dev = "grep"
    /\ LET out == Prompt(sent - Len(inq))
       IN buf' = buf \o Place(out, written) /\ written' = written + Size(out)
    /\ dev' = "shell"
    /\ UNCHANGED <<todo, inq, sent, svc, svcSince, changes, qnow, timeout_seconds, timeout,
                   expected_state_idx, last_state_idx, polls, lastCmd, matched, phase,
                   errLast, hist, proc, obj>>
    /\ UNCHANGED pollVars

\* the device stops answering (a hung or crashed guest) instead of booting
\* or of reading the next line
DeviceHang ==
    /\ proc = "running"
    /\ dev = "booting" \/ (dev \in {"login", "shell"} /\ inq # <<>>)
    /\ dev' = "hung"
    /\ UNCHANGED <<todo, buf, inq, sent, svc, svcSince, changes, qnow, timeout_seconds,
                   timeout, expected_state_idx, last_state_idx, polls, lastCmd, matched,
                   phase, errLast, written, hist, proc, obj>>
    /\ UNCHANGED pollVars

\* the service changes its state while the harness waits for it
SvcChange ==
    /\ phase = "waiting"
    /\ dev = "shell"
    /\ changes < MaxChanges
    /\ \E s \in 0..Len(states) : s # svc /\ svc' = s
    /\ svcSince' = qnow
    /\ changes' = changes + 1
    /\ UNCHANGED <<todo, buf, inq, sent, dev, qnow, timeout_seconds, timeout,
                   expected_state_idx, last_state_idx, polls, lastCmd, matched, phase,
                   errLast, written, hist, proc, obj>>
    /\ UNCHANGED pollVars

-----------------------------------------------------------------------------
(* One console session: construction, then systemd_wait_for_service_state *)

OneSecond == 10 * PollSleepTicks

\* the polling half when the behaviour is a console session
PollOff ==
    /\ mode = "off" /\ count = 0 /\ interval = 0 /\ now = 0 /\ deadline = 0 /\ pc = "off"
    /\ calls = 0 /\ sleeps = 0 /\ last = NoOutcome("off") /\ firstFail = NoFail
    /\ rv = <<>> /\ exc = NoFail /\ resp = NoResponse /\ num_reports = 0 /\ reports = <<>>
    /\ script = "off" /\ expectStatus = 0 /\ ignoreErrors = FALSE
    /\ fixture = NoFixture
    /\ replay = NoReplay

\* QEMU.__init__: the VM is spawned, then login(); the scenario then calls
\* systemd_wait_for_service_state(service, expected_state, timeout_seconds)
SessionStart ==
    /\ todo = login \o <<Step("wait_begin", "")>>
    /\ buf = <<>> /\ inq = <<>> /\ sent = 0
    /\ dev = "booting"
    /\ svc \in 0..Len(states)
    /\ expected_state_idx \in 0..(Len(states) - 1)
    /\ timeout_seconds \in 0..MaxWait \cup
                           (IF states[expected_state_idx + 1] = "active" THEN {OneSecond} ELSE {})
    /\ phase = "constructing"
    /\ hist = <<Did("spawn", "")>>

\* QEMU.__init__, then a scenario without the service poller: the
\* end-to-end scenario of exec_cmd, or wait_for_memfaultd_start as the
\* autouse fixture _do_wait_for_memfaultd calls it
ShellSessionStart ==
    /\ todo \in {login \o EchoHi, login \o expect_journald_message}
    /\ buf = <<>> /\ inq = <<>> /\ sent = 0
    /\ dev = "booting"
    /\ svc = 0
    /\ expected_state_idx = 0
    /\ timeout_seconds = 0
    /\ phase = "constructing"
    /\ hist = <<Did("spawn", "")>>

\* the construction is over and the scenario's own calls begin
ScenarioBegin ==
    /\ todo # <<>> /\ Head(todo).op = "begin"
    /\ phase' = "scenario"
    /\ hist' = Append(hist, Did("begin", Head(todo).arg))
    /\ todo' = Tail(todo)
    /\ UNCHANGED <<buf, inq, sent, dev, svc, svcSince, changes, qnow, timeout_seconds,
                   timeout, expected_state_idx, last_state_idx, polls, lastCmd, matched,
                   errLast, written, proc, obj>>
    /\ UNCHANGED pollVars

Commands == {"export PAGER=cat", IsActiveCmd}

\* A scenario on a session constructed earlier whose console is quiescent:
\* the harness has consumed all the device wrote (with child().expect) and
\* the shell has nothing left to read.  It calls exec_cmd twice with the
\* same command.
QuiescentStart ==
    /\ \E cmd \in Commands : todo = exec_cmd(cmd) \o exec_cmd(cmd)
    /\ buf = <<>> /\ inq = <<>> /\ sent = 0
    /\ dev = "shell"
    /\ svc \in 0..Len(states)
    /\ expected_state_idx = 0
    /\ timeout_seconds = 0
    /\ phase = "scenario"
    /\ hist = <<>>

\* the rest of the console half when a scenario starts
ConsoleFresh ==
    /\ svcSince = 0 /\ changes = 0
    /\ qnow = 0
    /\ timeout = 0
    /\ last_state_idx = 0 - 1
    /\ polls = 0 /\ lastCmd = 0
    /\ matched = NoMatch
    /\ errLast = ""
    /\ written = 0
    /\ proc = "running"
    /\ obj = "owned"

InitQemu ==
    /\ PollOff
    /\ SessionStart \/ ShellSessionStart \/ QuiescentStart
    /\ ConsoleFresh

\* a session whose scenario does not use the service poller
InitShell ==
    /\ PollOff
    /\ ShellSessionStart
    /\ ConsoleFresh

\* how a scenario ends: normally, by a failed assertion of the test, or by
\* the exception that ended its call on the session
ExitPaths(ph) == IF ph \in {"returned", "scenario"} THEN {"normal", "AssertionError"} ELSE {ph}

\* The scenario that owns the session ends.  The `qemu` fixture returns the
\* object and has no teardown of its own, and QEMU has no close method: the
\* process is released by __del__, which runs when nothing refers to the
\* object any more.  After a normal end that is at once.  An exception's
\* traceback refers to the frames that hold the object; it is dropped
\* later, or the object is still referenced when the interpreter exits, and
\* then __del__ need not be called.
ScenarioExit ==
    /\ obj = "owned"
    /\ todo = <<>>
    /\ \E how \in ExitPaths(phase) :
         /\ hist' = Append(hist, Did("exit", how))
         /\ obj' \in IF how = "normal" THEN {"unreferenced"}
                     ELSE {"unreferenced", "referenced"}
    /\ UNCHANGED <<todo, buf, inq, sent, dev, svc, svcSince, changes, qnow, timeout_seconds,
                   timeout, expected_state_idx, last_state_idx, polls, lastCmd, matched,
                   phase, errLast, written, proc>>
    /\ UNCHANGED pollVars

\* __del__: self.pid.close()
DelClose ==
    /\ obj = "unreferenced"
    /\ proc = "running"
    /\ proc' = "closed"
    /\ hist' = Append(hist, Did("close", ""))
    /\ UNCHANGED <<todo, buf, inq, sent, dev, svc, svcSince, changes, qnow, timeout_seconds,
                   timeout, expected_state_idx, last_state_idx, polls, lastCmd, matched,
                   phase, errLast, written, obj>>
    /\ UNCHANGED pollVars

\* __del__: self.pid.wait()
DelWait ==
    /\ obj = "unreferenced"
    /\ proc = "closed"
    /\ proc' = "reaped"
    /\ hist' = Append(hist, Did("wait", ""))
    /\ UNCHANGED <<todo, buf, inq, sent, dev, svc, svcSince, changes, qnow, timeout_seconds,
                   timeout, expected_state_idx, last_state_idx, polls, lastCmd, matched,
                   phase, errLast, written, obj>>
    /\ UNCHANGED pollVars

NextQemu == \/ ExecBegin \/ Sendline \/ Expect \/ ExpectTimeout
            \/ ScenarioBegin \/ WaitBegin \/ WaitTest \/ WaitCompare
            \/ DeviceBoot \/ DeviceLine \/ JournalMessage \/ DeviceHang \/ SvcChange
            \/ ScenarioExit \/ DelClose \/ DelWait

SpecQemu == InitQemu /\ [][NextQemu]_vars

\* every step that can be taken is taken eventually
SpecQemuLive == SpecQemu /\ WF_vars(NextQemu)

\* the steps of a session whose scenario does not use the service poller
NextShell == \/ ExecBegin \/ Sendline \/ Expect \/ ExpectTimeout \/ ScenarioBegin
             \/ DeviceBoot \/ DeviceLine \/ JournalMessage \/ DeviceHang
             \/ ScenarioExit \/ DelClose \/ DelWait

SpecShell == InitShell /\ [][NextShell]_vars

\* every step that can be taken is taken eventually
SpecShellLive == SpecShell /\ WF_vars(NextShell)

Init == InitPoll \/ InitQemu

Next == NextPoll \/ NextQemu

Spec == Init /\ [][Next]_vars

-----------------------------------------------------------------------------
(* Properties of the requests *)

\* the call has ended: it has returned or it has failed
CallEnded == pc \in {"returned", "raised"}

\* the model follows a call for MaxCalls requests only
BoundReached == pc = "check" /\ calls = MaxCalls

\* C18: every blocking operation is bounded by a timeout: a polling
\* operation, and each request it makes, eventually returns or fails, also
\* when the remote service never answers a request.
C18_Original == <>(CallEnded \/ BoundReached)

\* a single-call method was called
SingleMode == mode \in SingleMethods

\* the status of the response is not the expected one and the caller did
\* not ask to ignore that
StatusMismatch == resp.status # expectStatus /\ expectStatus # ANY /\ ~ignoreErrors

\* C19: a single-call method makes exactly one request per call and neither
\* retries nor sleeps; when the status differs from the expected one (errors
\* not ignored) the call fails on that one request and returns no value.
C19_OneRequestNoRetry ==
    SingleMode =>
        /\ calls <= 1 /\ sleeps = 0 /\ pc # "sleep"
        /\ CallEnded => calls = 1
        /\ CallEnded /\ StatusMismatch =>
               /\ pc = "raised"
               /\ exc.call = 1
               /\ exc.kind \in {"AssertionError", "JSONDecodeError"}
               /\ rv = NoVal(mode)

\* patch_device_attributes expecting its default 204, answered with 404
C19_Witness ==
    /\ mode = "patch_device_attributes" /\ CallEnded
    /\ expectStatus = 204 /\ resp.status = 404
    /\ pc = "raised" /\ calls = 1

\* a listing method called with errors explicitly ignored: ignore_errors
\* set, or the wildcard as expected status
ErrorsIgnored ==
    \/ mode \in {"list_reports", "list_elf_coredumps"} /\ ignoreErrors
    \/ mode \in {"list_reboot_events", "list_attributes"} /\ expectStatus = ANY

Is2xx(status) == 200 <= status /\ status < 300

\* the empty or absent result of a listing method
EmptyResult(m) ==
    IF m \in {"list_reports", "list_elf_coredumps"} THEN Returned(<<>>) ELSE ReturnedNone

\* C20: with errors ignored a listing method does not fail whatever the
\* status is; it returns the `data` of the payload when the status is 2xx
\* (the payload being the envelope) and the empty or absent result when it
\* is not.
C20_Original ==
    ErrorsIgnored /\ CallEnded /\ (Is2xx(resp.status) => resp.hasData) =>
        /\ pc = "returned"
        /\ rv = IF Is2xx(resp.status) THEN Returned(resp.data) ELSE EmptyResult(mode)

\* one of the two methods whose assertion carries resp.json() was called
WritingMode == mode \in {"patch_device_attributes", "create_custom_metric"}

\* C21: patch_device_attributes and create_custom_metric fail with the
\* AssertionError, and with no other kind of failure, for every response
\* whose status differs from the expected one, whatever its body; a response
\* with the expected status never fails.
C21_Original ==
    WritingMode /\ CallEnded =>
        IF StatusMatches(resp.status, expectStatus)
        THEN pc = "returned"
        ELSE pc = "raised" /\ exc.kind = "AssertionError"

\* one of the three poll_<entity>_until_count operations was called
CountPoller == mode \in {"reboot", "coredumps", "reports"}

\* the most recent answer of the listing endpoint has a non-success status
ErrorStatus == calls >= 1 /\ resp # NoResponse /\ ~Is2xx(resp.status)

C27_GetDeviceShowsStatus ==
    mode = "get_device" /\ CallEnded =>
        /\ resp.status = 404 => pc = "raised" /\ exc.shows = 404
        /\ pc = "raised" /\ exc.kind = "AssertionError" => exc.shows = resp.status
        /\ pc = "returned" => resp.status = 200 /\ rv = Returned(resp.data)
        /\ pc = "returned" =>
              test_fails_with_data_collection_disabled(TRUE, 0) = "failed"
        /\ test_fails_with_data_collection_disabled(pc = "returned",
                                                    IF pc = "raised" THEN exc.shows ELSE 0)
              = "passed" => resp.status = 404

\* get_device answered 404: it has failed, the text showing 404
C27_Witness ==
    /\ mode = "get_device" /\ pc = "raised"
    /\ resp.status = 404 /\ exc.shows = 404

\* the methods of the requests the fixture has issued, in order
RECURSIVE Methods(_)
Methods(reqs) == IF reqs = <<>> THEN <<>> ELSE <<Head(reqs).method>> \o Methods(Tail(reqs))

\* C26: the fixture _set_test_id_device_attribute makes no request before
\* the test body has run and none at all unless the test uses both
\* memfault_service_tester and qemu_device_id; after the test body it
\* issues create_custom_metric and then patch_device_attributes, the patch
\* also when the create failed; and whatever the status of either response
\* is (a 200 answer carrying the envelope), its teardown completes without
\* raising.
C26_Original ==
    mode = FixtureMode =>
        /\ pc \in {"setup", "body", "error"} => fixture.requests = <<>>
        /\ ~fixture.uses => fixture.requests = <<>>
        /\ pc = "patch" => Methods(fixture.requests) = <<"create_custom_metric">>
        /\ fixture.uses /\ pc = "returned" =>
              Methods(fixture.requests) = <<"create_custom_metric", "patch_device_attributes">>
        /\ (resp.status = 200 => resp.hasData) => pc # "raised"

-----------------------------------------------------------------------------
(* Properties of systemd_wait_for_service_state *)

\* the most recent expect(states) matched the state that the device printed
\* as the output of the most recent `systemctl is-active` command
ObservedPrintedState ==
    /\ polls >= 1
    /\ matched.src = "out"
    /\ matched.line = lastCmd

\* C7: systemd_wait_for_service_state returns only if the state printed as
\* the output of the most recent `systemctl is-active` command equals
\* expected_state; it never returns on a state name matched in the echo of
\* the command or in output left over from earlier.
C7_Original ==
    phase = "returned" =>
        /\ ObservedPrintedState
        /\ matched.st = expected_state_idx

\* C8: the call returns without error whenever the service reaches
\* expected_state strictly before start + timeout_seconds and stays there
\* (here: the device answers and the service is in expected_state when the
\* call ends, since a time before the deadline).
C8_Original ==
    svc = expected_state_idx /\ svcSince < timeout /\ dev # "hung" =>
        phase # "TimeoutError"

\* C9: the TimeoutError names, as last state, the state that the most recent
\* poll of the call observed.
C9_Original ==
    phase = "TimeoutError" =>
        /\ ObservedPrintedState
        /\ errLast = StateName(matched.st)

\* the end-to-end scenario: waiting one second for "active" while the
\* service always reports "failed"
AlwaysFailedScenario ==
    /\ states[expected_state_idx + 1] = "active"
    /\ timeout_seconds = OneSecond
    /\ StateName(svc) = "failed" /\ changes = 0

\* C10: in that scenario the call never returns successfully, and the number
\* of its polls is bounded by the timeout and the 0.1 s sleep.
C10_Original ==
    AlwaysFailedScenario =>
        /\ phase # "returned"
        /\ polls <= OneSecond

\* the device answers every `systemctl is-active` with a state that is none
\* of the seven
AlwaysUnknownState == StateName(svc) = "unknown" /\ changes = 0

\* C11: when the device answers with a state that is not enumerated, the
\* call does not retry: it makes one poll only and ends neither by returning
\* nor by its own TimeoutError, but by the expect call's timeout.
C11_Original ==
    AlwaysUnknownState /\ polls >= 1 =>
        /\ polls = 1
        /\ phase \notin {"returned", "TimeoutError"}

\* the expect over the state list has just matched: the comparison is next
StatesMatched == todo # <<>> /\ Head(todo).op = "wait_compare"

\* C24: when the command prints one of the seven enumerated states as its
\* output (the service being in that state throughout), the expect call
\* over the state list in systemd_wait_for_service_state yields the index of
\* exactly that state: `inactive` is not recognized as `active`, nor
\* `deactivating` as `activating`.
C24_Original ==
    StatesMatched /\ changes = 0 /\ svc < Len(states) => last_state_idx = svc

-----------------------------------------------------------------------------
(* Properties of exec_cmd and of the session *)

\* the scenario that calls exec_cmd twice against a quiescent shell
QuiescentScenario == hist # <<>> /\ hist[1].op = "call"

\* where the second call of that scenario starts in the history: behind the
\* entry and the statements of the first
SecondCall == Len(exec_cmd("")) + 1

\* C12: the prompt the second call matches answers the second call's own
\* empty line, and no expect of the second call matches bytes the device
\* wrote for a line of the first call (its output, its trailing prompt).
C12_Original ==
    QuiescentScenario =>
        \A i \in (SecondCall + 2)..Len(hist) :
            hist[i].op = "expect" =>
                /\ hist[i].line >= hist[SecondCall + 1].line
                /\ hist[i].arg = "#" =>
                       hist[i].src = "prompt" /\ hist[i].line = hist[SecondCall + 1].line

\* the four statements of exec_cmd(cmd), as operation and argument
ExecSteps(cmd) == <<<<"sendline", "">>, <<"expect", "#">>, <<"sendline", cmd>>,
                    <<"expect", "\n">>>>

OpArg(h) == <<h.op, h.arg>>

\* C13: what a call of exec_cmd has done on the console is always the
\* beginning of: send an empty line, expect `#`, send cmd, expect a
\* newline.  A command is only ever sent as the third of these, behind the
\* match of `#` of the same call; a call that ended in the expect timeout
\* at its `#` has sent its empty line and nothing after it.
C13_ExecCmdStepsInOrder ==
    /\ \A i \in DOMAIN hist :
          hist[i].op = "call" =>
             \A k \in 1..4 : i + k <= Len(hist) /\ hist[i + k].op \in {"sendline", "expect"}
                                => OpArg(hist[i + k]) = ExecSteps(hist[i].arg)[k]
    /\ \A j \in DOMAIN hist :
          hist[j].op = "sendline" /\ hist[j].arg \in Commands =>
             /\ j > 3
             /\ hist[j - 3] = Did("call", hist[j].arg)
             /\ OpArg(hist[j - 1]) = <<"expect", "#">>
             /\ hist[j - 1].end > 0
    /\ phase = "pexpect.TIMEOUT" /\ Len(hist) >= 2
          /\ OpArg(hist[Len(hist)]) = <<"sendline", "">> =>
          /\ hist[Len(hist) - 1].op = "call"
          /\ hist[Len(hist)].line = sent
          /\ todo = <<>>

\* a call of exec_cmd has sent its command behind its match of `#` and has
\* completed its four statements
C13_Witness ==
    \E i \in DOMAIN hist :
        /\ hist[i] = Did("call", IsActiveCmd)
        /\ i + 4 <= Len(hist)
        /\ OpArg(hist[i + 4]) = <<"expect", "\n">>

\* a call of exec_cmd whose prompt never appeared: it ended in the expect
\* timeout with only its empty line sent
ExecCmdTimedOutAtPrompt ==
    /\ phase = "pexpect.TIMEOUT"
    /\ Len(hist) >= 2
    /\ hist[Len(hist) - 1].op = "call"
    /\ OpArg(hist[Len(hist)]) = <<"sendline", "">>

\* C14: when exec_cmd(cmd) has returned, the newline its last statement
\* matched is the line end of the echo of cmd, and the expect call that
\* follows matches bytes the device wrote as output of cmd or later: not
\* the echo of cmd, not what it wrote for an earlier line.
C14_Original ==
    \A i \in DOMAIN hist :
        hist[i].op = "call" /\ i + 4 <= Len(hist) /\ hist[i + 4].op = "expect" =>
            /\ hist[i + 4].src = "echo"
            /\ hist[i + 4].line = hist[i + 3].line
            /\ i + 5 <= Len(hist) /\ hist[i + 5].op = "expect" =>
                   /\ hist[i + 5].line >= hist[i + 3].line
                   /\ ~(hist[i + 5].src = "echo" /\ hist[i + 5].line = hist[i + 3].line)

\* the entries of the history that are expect calls, in order
RECURSIVE Expects(_)
Expects(h) ==
    IF h = <<>> THEN <<>>
    ELSE IF Head(h).op = "expect" THEN <<Head(h)>> \o Expects(Tail(h))
    ELSE Expects(Tail(h))

\* C15: over all the expect calls of a session (those of login, exec_cmd and
\* systemd_wait_for_service_state included) each match lies wholly behind
\* the match before it: no byte is matched twice and no match goes back.
C15_MatchesMoveForward ==
    LET e == Expects(hist) IN
    \A n \in DOMAIN e :
        /\ e[n].start <= e[n].end
        /\ n > 1 => e[n].start > e[n - 1].end

\* a session in which login, exec_cmd and systemd_wait_for_service_state
\* have all matched, the last a state name
C15_Witness ==
    LET e == Expects(hist) IN
    /\ Len(e) >= 8
    /\ e[1].arg = " login:"
    /\ e[Len(e)].arg = "states"

\* the session scenario: the history starts with the spawn of the VM
SessionScenario == hist # <<>> /\ hist[1].op = "spawn"

\* what the construction of a session does on the console, in order
Construction ==
    <<<<"spawn", "">>, <<"expect", " login:">>, <<"sendline", "root">>,
      <<"call", "export PAGER=cat">>>> \o ExecSteps("export PAGER=cat")
    \o <<<<"call", "export SYSTEMD_PAGER=cat">>>> \o ExecSteps("export SYSTEMD_PAGER=cat")

\* C16: constructing a session spawns the VM, waits for ` login:`, sends
\* `root`, then executes `export PAGER=cat` and `export SYSTEMD_PAGER=cat`,
\* in this order and before the scenario's first command; `root` is not
\* sent before the login prompt was matched, and a construction whose login
\* prompt never appears fails with nothing sent.
C16_ConstructionInOrder ==
    SessionScenario =>
        /\ \A i \in DOMAIN hist :
              i <= Len(Construction) /\ hist[i].op \notin {"exit", "close", "wait"}
                 => OpArg(hist[i]) = Construction[i]
        /\ phase \in {"waiting", "returned", "TimeoutError"} => Len(hist) >= Len(Construction)
        /\ phase = "constructing" => Len(hist) <= Len(Construction) /\ polls = 0
        /\ Len(hist) < 3 \/ hist[2].op = "exit" => sent = 0 /\ inq = <<>>

\* the construction is complete and the scenario has issued its first
\* `systemctl is-active`
C16_Witness ==
    /\ SessionScenario
    /\ phase = "waiting"
    /\ Len(hist) > Len(Construction) + 3
    /\ hist[Len(Construction) + 1] = Did("call", IsActiveCmd)

\* a construction that failed because the login prompt never appeared
ConstructionFailedAtLogin ==
    /\ SessionScenario
    /\ phase = "pexpect.TIMEOUT"
    /\ Len(hist) = 1

\* C17: on every exit path of the scenario that owns the session the
\* spawned VM process is eventually closed and then waited for, so that it
\* is neither running nor unreaped afterwards.
C17_Original == <>(proc = "reaped")

\* how far call i of exec_cmd reads behind the shell: the number of lines
\* between the line whose prompt its expect("#") matched and its own empty
\* line (hist[i] is the call, hist[i + 1] its empty line, hist[i + 2] its
\* expect of the prompt)
Lag(i) == hist[i + 1].line - hist[i + 2].line

\* a call of exec_cmd that has matched its prompt
MatchedPrompt(i) ==
    /\ hist[i].op = "call"
    /\ i + 2 <= Len(hist)
    /\ OpArg(hist[i + 2]) = <<"expect", "#">>

RECURSIVE PromptsUnread(_)
\* the prompt markers the shell has printed and the harness has not consumed
PromptsUnread(b) ==
    IF b = <<>> THEN 0
    ELSE (IF Head(b).src = "prompt" /\ Head(b).from < Len(Bytes("root@qemu:~# ")) - 1 THEN 1 ELSE 0)
         + PromptsUnread(Tail(b))

\* C29: over consecutive exec_cmd calls the harness does not fall further
\* behind the shell: a later call reads no further behind than an earlier
\* one, and each call consumes as many prompt markers as the shell prints in
\* response to it, so that on a console that was quiescent before, no
\* prompt marker is left unconsumed once the calls are over and the shell
\* is idle.
C29_Original ==
    /\ \A i, j \in DOMAIN hist :
          i < j /\ MatchedPrompt(i) /\ MatchedPrompt(j) => Lag(j) <= Lag(i)
    /\ QuiescentScenario /\ todo = <<>> /\ phase = "scenario" /\ inq = <<>> /\ dev = "shell"
          => PromptsUnread(buf) = 0

-----------------------------------------------------------------------------
(* Properties of the scenarios on a constructed session *)

\* the construction is over and the end-to-end scenario of exec_cmd has begun
EchoBegun == \E i \in DOMAIN hist : hist[i] = Did("begin", "echo")

\* the scenario's expect("hi") has matched and the scenario's calls are over
EchoMatched ==
    /\ EchoBegun
    /\ todo = <<>> /\ phase = "scenario"
    /\ \E i \in DOMAIN hist : OpArg(hist[i]) = <<"expect", "hi">> /\ hist[i].end > 0

\* C22: against a console that prints `login:`, accepts `root` and then is
\* an echoing shell (one that does not stop answering), exec_cmd("echo hi")
\* followed by expect("hi") on the constructed session ends with a match of
\* `hi`, and none of its expect steps runs into its timeout.
C22_EchoHiObserved ==
    /\ [](EchoBegun /\ dev # "hung" => phase # "pexpect.TIMEOUT")
    /\ EchoBegun ~> (dev = "hung" \/ EchoMatched)

\* the scenario has ended with `hi` matched, the shell answering throughout
C22_Witness == EchoMatched /\ dev = "shell"

\* wait_for_memfaultd_start was called on the constructed session
JournalBegun == \E i \in DOMAIN hist : hist[i] = Did("begin", "journal")

\* C23: expect_journald_message (and wait_for_memfaultd_start) returns
\* normally only after its grep command has ended, the message having
\* appeared in the journal: the prompt it finally matches is the one the
\* shell printed after that command, whatever exec_cmd and expect calls
\* came before.  While the message has not appeared the call does not
\* return; it ends in the expect timeout.
C23_Original ==
    /\ \A j \in DOMAIN hist :
          OpArg(hist[j]) = <<"sendline", JournalCmd>>
             /\ j + 2 <= Len(hist) /\ hist[j + 2].op = "expect" =>
                /\ hist[j + 2].src = "prompt"
                /\ hist[j + 2].line = hist[j].line
    /\ JournalBegun /\ todo = <<>> /\ dev = "grep" => phase = "pexpect.TIMEOUT"

-----------------------------------------------------------------------------
(* Properties of the two count pollers side by side *)

\* poll_elf_coredumps_until_count after the answers poll_reports_until_count
\* received
Twin == TwinRun(TwinStart, replay.served, count, deadline)

\* C30: poll_reports_until_count and poll_elf_coredumps_until_count, called
\* with the same count (zero included) and the same timeout and answered
\* alike, issue the same number of listing requests and end the same way:
\* when the first has ended, the second has ended on the same answers, having
\* used every one of them, and has returned the same list or raised as the
\* first did.
C30_Original ==
    (replay.on /\ pc \in {"returned", "raised"}) =>
        /\ Twin.pc = pc
        /\ Twin.calls = calls
        /\ pc = "returned" => Twin.rv = rv

=============================================================================
